---- MODULE Spec2Model ----
(***************************************************************************)
(* A model of the SQLite-backed event-sourcing persistence engine:         *)
(*   - SqliteEventRepository (event_repository.rs): the events and         *)
(*     snapshots tables, written inside IMMEDIATE transactions;            *)
(*   - SqliteViewRepository (view_repository.rs): the view table;          *)
(*   - the error classifier (error.rs);                                    *)
(*   - PostgresSnapshotStore (aggregate_store.rs): load_aggregate/commit.  *)
(* The SQL text of the event/snapshot statements and the table schema are  *)
(* not part of the sources; their behaviour is taken from sections 4 and 6 *)
(* of the specification (unique indexes, version-conditioned update).      *)
(***************************************************************************)
EXTENDS Integers, Sequences, FiniteSets, TLC

\* ------------------------------------------------------------------ bounds
MaxSeq == 2
MaxVersion == 2

\* ------------------------------------------------------------ value spaces
Ids == {"A", "B"}
ViewIds == {"v1", "v2"}
Payloads == {"p", "q"}
Writers == {"w1", "w2"}
StoreIds == {"A"}
\* the state of a default-constructed aggregate: no event applied
Default == <<>>

VARIABLES events, snapshots, views, last, wr, rs

vars == <<events, snapshots, views, last, wr, rs>>

\* ----------------------------------------------------- small pure helpers
Last(s) == s[Len(s)]

RECURSIVE SortBySeq(_)
SortBySeq(S) ==
    IF S = {} THEN <<>>
    ELSE LET r == CHOOSE x \in S : \A y \in S : x.sequence <= y.sequence
         IN <<r>> \o SortBySeq(S \ {r})

\* ------------------------------------------------------- error classifier
\* A constraint violation reported by SQLite is the optimistic lock; every
\* other rusqlite failure is unknown.
FromRusqliteUnknown(err) == "UnknownError"
FromRusqlite(err) ==
    IF err = "ConstraintViolation" THEN "OptimisticLock" ELSE "UnknownError"

FromSqliteAggregateError(err) ==
    CASE err = "OptimisticLock" -> "OptimisticLockError"
      [] err = "ConnectionError" -> "ConnectionError"
      [] err = "DeserializationError" -> "UnknownError"
      [] err = "UnknownError" -> "UnknownError"
      [] OTHER -> err

ToAggregateError(err) ==
    CASE err = "OptimisticLock" -> "AggregateConflict"
      [] err = "ConnectionError" -> "DatabaseConnectionError"
      [] err = "DeserializationError" -> "DeserializationError"
      [] err = "UnknownError" -> "UnexpectedError"
      [] OTHER -> err

\* every r2d2 error (no pooled connection could be obtained) is unknown
FromR2d2(err) == "UnknownError"

FromSerdeJson(category) ==
    IF category \in {"Data", "Syntax"} THEN "DeserializationError"
    ELSE "UnknownError"

\* the rusqlite error code of a backend failure: every kind of constraint
\* failure carries the code ConstraintViolation
ErrorCode(failure) ==
    CASE failure \in {"UniqueViolation", "NotNullViolation"} -> "ConstraintViolation"
      [] failure = "DiskIo" -> "SystemIoFailure"
      [] OTHER -> failure

\* the failures a call can be made to meet: no pooled connection, a statement
\* that fails on I/O, a statement rejected by a constraint other than the
\* unique indexes
Faults == {"none", "PoolError", "DiskIo", "NotNullViolation"}
ReadFaults == {"none", "PoolError", "DiskIo"}

\* the SqliteAggregateError a call makes of a failure, by map_err(from)
BackendError(fault) ==
    IF fault = "PoolError" THEN FromR2d2(fault) ELSE FromRusqlite(ErrorCode(fault))

\* --------------------------------------------------- the backing tables
\* events: unique index on (aggregate_type, aggregate_id, sequence).
EventKeyTaken(tbl, ev) ==
    \E r \in tbl : r.aggregate_id = ev.aggregate_id /\ r.sequence = ev.sequence

InsertEventRow(tbl, ev) ==
    IF EventKeyTaken(tbl, ev)
    THEN [err |-> "ConstraintViolation", tbl |-> tbl]
    ELSE [err |-> "none", tbl |-> tbl \cup {ev}]

\* snapshots: unique index on (aggregate_type, aggregate_id).
SnapshotRows(tbl, id) == {r \in tbl : r.aggregate_id = id}

InsertSnapshotRow(tbl, id, last_sequence, current_snapshot, payload) ==
    IF SnapshotRows(tbl, id) # {}
    THEN [err |-> "ConstraintViolation", tbl |-> tbl]
    ELSE [err |-> "none",
          tbl |-> tbl \cup {[aggregate_id |-> id, last_sequence |-> last_sequence,
                             current_snapshot |-> current_snapshot,
                             payload |-> payload]}]

\* UPDATE ... WHERE aggregate_id = id AND current_snapshot = expected
UpdateSnapshotRows(tbl, id, last_sequence, payload, current_snapshot, expected) ==
    LET hit == {r \in SnapshotRows(tbl, id) : r.current_snapshot = expected}
    IN [rows_affected |-> Cardinality(hit),
        tbl |-> (tbl \ hit) \cup
                {[aggregate_id |-> id, last_sequence |-> last_sequence,
                  current_snapshot |-> current_snapshot,
                  payload |-> payload] : r \in hit}]

\* the view table: unique index on view_id.
ViewRows(tbl, view_id) == {r \in tbl : r.view_id = view_id}

InsertViewRow(tbl, view_id, version, payload) ==
    IF ViewRows(tbl, view_id) # {}
    THEN [err |-> "ConstraintViolation", tbl |-> tbl]
    ELSE [err |-> "none",
          tbl |-> tbl \cup {[view_id |-> view_id, version |-> version,
                             payload |-> payload]}]

\* UPDATE ... SET payload, version WHERE view_id = ?
UpdateViewRows(tbl, view_id, version, payload) ==
    LET hit == ViewRows(tbl, view_id)
    IN [err |-> "none",
        tbl |-> (tbl \ hit) \cup
                {[view_id |-> view_id, version |-> version,
                  payload |-> payload] : r \in hit}]

\* --------------------------------------------- SqliteEventRepository reads
select_events(tbl, id, after) ==
    SortBySeq({r \in tbl : r.aggregate_id = id /\ r.sequence > after})

get_events(tbl, id) == select_events(tbl, id, 0)

\* the tail query taken one sequence too early
get_last_events_inclusive(tbl, id, last_sequence) ==
    select_events(tbl, id, last_sequence - 1)

get_last_events(tbl, id, last_sequence) == select_events(tbl, id, last_sequence)

\* Some(row) as a one-element set, None as the empty set.
get_snapshot(tbl, id) == SnapshotRows(tbl, id)

\* -------------------------------------------- SqliteEventRepository writes
\* persist_events runs inside the caller's transaction `tx` (the working copy
\* of the events table) and stops at the first rejected insert.
RECURSIVE PersistFrom(_, _, _, _)
PersistFrom(tx, evs, i, current_sequence) ==
    IF i > Len(evs)
    THEN [err |-> "none", tx |-> tx, current_sequence |-> current_sequence]
    ELSE LET r == InsertEventRow(tx, evs[i])
         IN IF r.err # "none"
            THEN [err |-> FromRusqlite(r.err), tx |-> r.tbl,
                  current_sequence |-> evs[i].sequence]
            ELSE PersistFrom(r.tbl, evs, i + 1, evs[i].sequence)

\* the event insert as an INSERT OR REPLACE: a row already stored under an
\* event's key gives way to the new event
persist_events_replace(tx, evs) ==
    LET new == {evs[i] : i \in 1..Len(evs)}
    IN [err |-> "none",
        tx |-> {r \in tx : ~EventKeyTaken(new, r)} \cup new,
        current_sequence |-> IF evs = <<>> THEN 0 ELSE evs[Len(evs)].sequence]

persist_events(tx, evs) == PersistFrom(tx, evs, 1, 0)

\* A database is the pair of tables; a transaction that is dropped without
\* commit leaves the database as it was.
DB(ev, sn) == [events |-> ev, snapshots |-> sn]

insert_events_partial(db, evs) ==
    LET r == persist_events(db.events, evs)
    IN IF r.err # "none"
       THEN [db |-> DB(r.tx, db.snapshots), result |-> r.err]
       ELSE [db |-> DB(r.tx, db.snapshots), result |-> "Ok"]
insert_events(db, evs) ==
    LET r == persist_events(db.events, evs)
    IN IF r.err # "none"
       THEN [db |-> db, result |-> r.err]
       ELSE [db |-> DB(r.tx, db.snapshots), result |-> "Ok"]

insert_or_replace(db, aggregate_payload, aggregate_id, current_snapshot, evs) ==
    LET r == persist_events(db.events, evs)
    IN IF r.err # "none"
       THEN [db |-> db, result |-> r.err]
       ELSE LET s == InsertSnapshotRow(db.snapshots \ SnapshotRows(db.snapshots, aggregate_id),
                                       aggregate_id, r.current_sequence,
                                       current_snapshot, aggregate_payload)
            IN [db |-> DB(r.tx, s.tbl), result |-> "Ok"]
insert(db, aggregate_payload, aggregate_id, current_snapshot, evs) ==
    LET r == persist_events(db.events, evs)
    IN IF r.err # "none"
       THEN [db |-> db, result |-> r.err]
       ELSE LET s == InsertSnapshotRow(db.snapshots, aggregate_id,
                                       r.current_sequence, current_snapshot,
                                       aggregate_payload)
            IN IF s.err # "none"
               THEN [db |-> db, result |-> FromRusqlite(s.err)]
               ELSE [db |-> DB(r.tx, s.tbl), result |-> "Ok"]

update_no_version_check(db, aggregate_payload, aggregate_id, current_snapshot, evs, wrap) ==
    LET r == persist_events(db.events, evs)
    IN IF r.err # "none"
       THEN [db |-> db, result |-> r.err]
       ELSE LET rows == SnapshotRows(db.snapshots, aggregate_id)
                u == UpdateSnapshotRows(db.snapshots, aggregate_id,
                                        r.current_sequence, aggregate_payload,
                                        current_snapshot,
                                        IF rows = {} THEN current_snapshot - 1
                                        ELSE (CHOOSE x \in rows : TRUE).current_snapshot)
            IN [db |-> DB(r.tx, u.tbl),
                result |-> IF u.rows_affected = 1 THEN "Ok" ELSE "OptimisticLock"]
\* the update accepting a stored version that is already the new one
update_at_most(db, aggregate_payload, aggregate_id, current_snapshot, evs, wrap) ==
    LET r == persist_events(db.events, evs)
    IN IF r.err # "none"
       THEN [db |-> db, result |-> r.err]
       ELSE IF current_snapshot = 0 /\ ~wrap
       THEN [db |-> db, result |-> "panic"]
       ELSE LET same == {x \in SnapshotRows(db.snapshots, aggregate_id) :
                            x.current_snapshot = current_snapshot}
                u == UpdateSnapshotRows(db.snapshots, aggregate_id,
                                        r.current_sequence, aggregate_payload,
                                        current_snapshot,
                                        IF same # {} THEN current_snapshot
                                        ELSE current_snapshot - 1)
            IN [db |-> DB(r.tx, u.tbl),
                result |-> IF u.rows_affected = 1 THEN "Ok" ELSE "OptimisticLock"]

\* (current_snapshot - 1) on usize: with current_snapshot = 0 a build with
\* overflow checks panics, a build without wraps and the cast to i32 gives -1.
\* `wrap` selects the build.
update(db, aggregate_payload, aggregate_id, current_snapshot, evs, wrap) ==
    LET r == persist_events(db.events, evs)
    IN IF r.err # "none"
       THEN [db |-> db, result |-> r.err]
       ELSE IF current_snapshot = 0 /\ ~wrap
       THEN [db |-> db, result |-> "panic"]
       ELSE LET u == UpdateSnapshotRows(db.snapshots, aggregate_id,
                                        r.current_sequence, aggregate_payload,
                                        current_snapshot, current_snapshot - 1)
            IN [db |-> DB(r.tx, u.tbl),
                result |-> IF u.rows_affected = 1 THEN "Ok" ELSE "OptimisticLock"]

\* snapshot_update is <<>> for None and <<id, aggregate, current_snapshot>>
\* for Some.
persist(db, evs, snapshot_update, wrap) ==
    LET r == IF snapshot_update = <<>>
             THEN insert_events(db, evs)
             ELSE IF snapshot_update[3] = 1
                  THEN insert(db, snapshot_update[2], snapshot_update[1],
                              snapshot_update[3], evs)
                  ELSE update(db, snapshot_update[2], snapshot_update[1],
                              snapshot_update[3], evs, wrap)
    IN [db |-> r.db, result |-> FromSqliteAggregateError(r.result)]

\* ------------------------------------------------- SqliteViewRepository
\* Option values are sets of at most one element.
load(tbl, view_id) == {r.payload : r \in ViewRows(tbl, view_id)}

load_with_context(tbl, view_id) ==
    {<<r.payload, [view_instance_id |-> view_id, version |-> r.version]>> :
        r \in ViewRows(tbl, view_id)}

update_view_upsert(tbl, view, context) ==
    LET version == context.version + 1
        r == IF context.version = 0 /\ ViewRows(tbl, context.view_instance_id) = {}
             THEN InsertViewRow(tbl, context.view_instance_id, version, view)
             ELSE UpdateViewRows(tbl, context.view_instance_id, version, view)
    IN [tbl |-> r.tbl, result |-> "Ok"]
\* update_view whose UPDATE has no WHERE clause
update_view_every_row(tbl, view, context) ==
    LET version == context.version + 1
        r == IF context.version = 0
             THEN InsertViewRow(tbl, context.view_instance_id, version, view)
             ELSE [err |-> "none",
                   tbl |-> {[x EXCEPT !.version = version, !.payload = view] :
                            x \in tbl}]
    IN IF r.err # "none"
       THEN [tbl |-> tbl, result |-> FromSqliteAggregateError(FromRusqlite(r.err))]
       ELSE [tbl |-> r.tbl, result |-> "Ok"]

update_view(tbl, view, context) ==
    LET version == context.version + 1
        r == IF context.version = 0
             THEN InsertViewRow(tbl, context.view_instance_id, version, view)
             ELSE UpdateViewRows(tbl, context.view_instance_id, version, view)
    IN IF r.err # "none"
       THEN [tbl |-> tbl, result |-> FromSqliteAggregateError(FromRusqlite(r.err))]
       ELSE [tbl |-> r.tbl, result |-> "Ok"]

\* ------------------------------------------------------------ call inputs
Event(id, sequence, payload, metadata) ==
    [aggregate_id |-> id, sequence |-> sequence, payload |-> payload,
     metadata |-> metadata]

BatchLens == {0, 1, 2}

SeqLists == UNION {[1..n -> 1..MaxSeq] : n \in BatchLens}

Batch(id, ss, payload) == [i \in 1..Len(ss) |-> Event(id, ss[i], payload, "m")]

\* the batches a snapshot-carrying persist is given: at most one event, or
\* two consecutive ones
SnapSeqLists == {ss \in SeqLists : Len(ss) = 2 => ss[2] = ss[1] + 1}

SnapshotUpdates(ids, payload) ==
    {<<>>} \cup {<<id, <<payload>>, cs>> : id \in ids, cs \in 1..MaxVersion}

NoCall ==
    [op |-> "none", result |-> "none", events |-> <<>>, snapshot_update |-> <<>>,
     view_id |-> "none", version |-> 0, payload |-> "none",
     id |-> "none", fault |-> "none", last_sequence |-> 0, value |-> <<>>,
     conn |-> 0, tx |-> "none", error_handler |-> "None", handled |-> 0]

\* ------------------------------------------------------------------ state
\* ------------------------------------------------ PostgresSnapshotStore
peek_at_last_sequence(evs, wrap) ==
    IF Len(evs) = 0
    THEN [panic |-> ~wrap, value |-> 0]
    ELSE [panic |-> FALSE, value |-> evs[Len(evs)].sequence]

\* the aggregate folds its events; its state is the list of applied payloads
Apply(aggregate, payloads) == aggregate \o payloads

\* numbers the new events current_sequence + 1, current_sequence + 2, ...
wrap_events(id, current_sequence, payloads, metadata) ==
    [i \in 1..Len(payloads) |->
        Event(id, current_sequence + i, payloads[i], metadata)]

\* SnapshotRepository: save of a first checkpoint and of a later one
repo_insert(tbl, aggregate, id, last_sequence, current_snapshot) ==
    LET r == InsertSnapshotRow(tbl, id, last_sequence, current_snapshot, aggregate)
    IN IF r.err # "none"
       THEN [tbl |-> tbl, result |-> FromRusqlite(r.err)]
       ELSE [tbl |-> r.tbl, result |-> "Ok"]

repo_update(tbl, aggregate, id, last_sequence, current_snapshot) ==
    LET u == UpdateSnapshotRows(tbl, id, last_sequence, aggregate,
                                current_snapshot, current_snapshot - 1)
    IN IF u.rows_affected = 1
       THEN [tbl |-> u.tbl, result |-> "Ok"]
       ELSE [tbl |-> tbl, result |-> "OptimisticLock"]

\* load_aggregate reading the snapshot without regard to the aggregate id
load_aggregate_any(tbl, aggregate_id) ==
    IF tbl = {}
    THEN [aggregate |-> Default, current_sequence |-> 0, current_snapshot |-> 0]
    ELSE LET row == CHOOSE r \in tbl : TRUE
         IN [aggregate |-> row.payload, current_sequence |-> row.last_sequence,
             current_snapshot |-> row.current_snapshot]

load_aggregate(tbl, aggregate_id) ==
    LET snapshot == get_snapshot(tbl, aggregate_id)
    IN IF snapshot = {}
       THEN [aggregate |-> Default, current_sequence |-> 0, current_snapshot |-> 0]
       ELSE LET row == CHOOSE r \in snapshot : TRUE
            IN [aggregate |-> row.payload, current_sequence |-> row.last_sequence,
                current_snapshot |-> row.current_snapshot]

\* commit, up to the event insert: wrap the events after the context's
\* current sequence and insert them
commit_events_skip(db, context, aggregate_id, payloads, metadata) ==
    insert_events(db, wrap_events(aggregate_id, context.current_sequence + 1,
                                  payloads, metadata))
commit_events(db, context, aggregate_id, payloads, metadata) ==
    insert_events(db, wrap_events(aggregate_id, context.current_sequence,
                                  payloads, metadata))

\* the snapshot write saving the sequence the context was loaded at
commit_snapshot_stale(tbl, context, aggregate_id, last_sequence) ==
    IF context.current_sequence = 0
    THEN repo_insert(tbl, context.aggregate, aggregate_id,
                     context.current_sequence, 1)
    ELSE repo_update(tbl, context.aggregate, aggregate_id,
                     context.current_sequence, context.current_snapshot + 1)

\* commit, after the event insert: the snapshot is inserted when the context's
\* current sequence is 0 and updated to current_snapshot + 1 otherwise
commit_snapshot(tbl, context, aggregate_id, last_sequence) ==
    IF context.current_sequence = 0
    THEN repo_insert(tbl, context.aggregate, aggregate_id, last_sequence, 1)
    ELSE repo_update(tbl, context.aggregate, aggregate_id, last_sequence,
                     context.current_snapshot + 1)

\* ------------------------------------------------------- the event store
\* load of the plain event store: the context carries the log's last sequence
load_event_context(tbl, aggregate_id) ==
    LET es == get_events(tbl, aggregate_id)
    IN [aggregate |-> Default,
        current_sequence |-> IF es = <<>> THEN 0 ELSE Last(es).sequence,
        current_snapshot |-> 0]

\* ------------------------------------------------------- replay streams
\* A stored payload that cannot be decoded (damaged text, or a shape the
\* reader no longer accepts).
Undecodable == "#"

\* deser_event handing the metadata column out as the payload and the
\* payload column as the metadata
deser_event_swapped(row) ==
    IF row.payload = Undecodable
    THEN [err |-> FromRusqlite("FromSqlConversionFailure"), event |-> row]
    ELSE [err |-> "none",
          event |-> [row EXCEPT !.payload = row.metadata, !.metadata = row.payload]]

\* deser_event: every column is read with row.get, whose failure is a
\* rusqlite error and so goes through the rusqlite classifier
deser_event(row) ==
    IF row.payload = Undecodable
    THEN [err |-> FromRusqlite("FromSqlConversionFailure"), event |-> row]
    ELSE [err |-> "none", event |-> row]

\* the rows the two replay queries select, in the query's order
IdRank(id) == IF id = "A" THEN 1 ELSE 2

RECURSIVE SortByKey(_)
SortByKey(S) ==
    IF S = {} THEN <<>>
    ELSE LET r == CHOOSE x \in S : \A y \in S :
                      \/ IdRank(x.aggregate_id) < IdRank(y.aggregate_id)
                      \/ x.aggregate_id = y.aggregate_id /\ x.sequence <= y.sequence
         IN <<r>> \o SortByKey(S \ {r})

ReplayRows(tbl, kind, id) ==
    IF kind = "all" THEN SortByKey(tbl) ELSE select_events(tbl, id, 0)

\* a replay stream: the channel's buffer, the state of its feed, what the
\* consumer has received and whether it has seen the end; `start` is the log
\* as it was when the stream was made, `held` the pooled connections checked
\* out on the stream's behalf, `dropped` whether the consumer dropped it
NoStream ==
    [kind |-> "none", id |-> "none", start |-> {}, buffer |-> <<>>,
     feed |-> "dropped", received |-> <<>>, ended |-> FALSE,
     held |-> 0, dropped |-> FALSE, channel_size |-> 0]

\* the channel sizes a repository is configured with
ChannelSizes == {1, 2}

\* the stream a spawned producer would leave behind: the feed kept open by a
\* task that holds a pooled connection for its cursor
stream_events_spawned(tbl, kind, aggregate_id, channel_size) ==
    [kind |-> kind, id |-> aggregate_id, start |-> tbl, buffer |-> <<>>,
     feed |-> "open", received |-> <<>>, ended |-> FALSE,
     held |-> 1, dropped |-> FALSE, channel_size |-> channel_size]

\* the stream whose feed is kept by something that never pushes and never
\* lets go of it
stream_events_parked(tbl, kind, aggregate_id, channel_size) ==
    [kind |-> kind, id |-> aggregate_id, start |-> tbl, buffer |-> <<>>,
     feed |-> "open", received |-> <<>>, ended |-> FALSE,
     held |-> 0, dropped |-> FALSE, channel_size |-> channel_size]

\* stream_events makes the channel and returns the stream; the feed is dropped
\* on return without a push, the producer task being disabled, and the pool
\* handle it was given is dropped without a connection taken from it
stream_events(tbl, kind, aggregate_id, channel_size) ==
    [kind |-> kind, id |-> aggregate_id, start |-> tbl, buffer |-> <<>>,
     feed |-> "dropped", received |-> <<>>, ended |-> FALSE,
     held |-> 0, dropped |-> FALSE, channel_size |-> channel_size]

\* ------------------------------------------- calls with their failures
\* Each call below is the call of the same name with its failure points: the
\* pool, the statement, the decoding of what was read.
Min(S) == CHOOSE i \in S : \A j \in S : i <= j

deser_snapshot(row) ==
    IF row.payload = <<Undecodable>>
    THEN FromRusqlite("FromSqlConversionFailure") ELSE "none"

\* `?` on a serde_json error in a function that returns PersistenceError
PersistenceFromSerdeJson(category) == FromSerdeJson(category)

select_events_result(tbl, aggregate_id, fault) ==
    IF fault # "none"
    THEN FromSqliteAggregateError(BackendError(fault))
    ELSE LET rows == get_events(tbl, aggregate_id)
             bad == {i \in 1..Len(rows) : deser_event(rows[i]).err # "none"}
         IN IF bad # {}
            THEN FromSqliteAggregateError(deser_event(rows[Min(bad)]).err)
            ELSE "Ok"

get_snapshot_result(tbl, aggregate_id, fault) ==
    IF fault # "none"
    THEN FromSqliteAggregateError(BackendError(fault))
    ELSE LET bad == {r \in get_snapshot(tbl, aggregate_id) : deser_snapshot(r) # "none"}
         IN IF bad # {}
            THEN FromSqliteAggregateError(FromRusqlite("FromSqlConversionFailure"))
            ELSE "Ok"

insert_events_result(db, evs, fault) ==
    IF fault # "none"
    THEN [db |-> db, result |-> FromSqliteAggregateError(BackendError(fault))]
    ELSE persist(db, evs, <<>>, TRUE)

load_result(tbl, view_id, fault) ==
    IF fault # "none"
    THEN FromSqliteAggregateError(BackendError(fault))
    ELSE IF \E r \in ViewRows(tbl, view_id) : r.payload = Undecodable
    THEN PersistenceFromSerdeJson("Data")
    ELSE "Ok"

update_view_result(tbl, view, context, fault) ==
    IF fault # "none"
    THEN [tbl |-> tbl, result |-> FromSqliteAggregateError(BackendError(fault))]
    ELSE update_view(tbl, view, context)

\* load_aggregate panics on any error of the snapshot read
load_aggregate_result(tbl, aggregate_id, fault) ==
    IF fault # "none" \/ \E r \in get_snapshot(tbl, aggregate_id) :
                            r.payload = <<Undecodable>>
    THEN "panic" ELSE "Ok"

\* GenericQueryRepository::load panics when the query fails; a view that
\* cannot be decoded goes to the error handler and None is returned
query_load_result(tbl, query_instance_id, fault) ==
    IF fault # "none" THEN "panic"
    ELSE IF \E r \in ViewRows(tbl, query_instance_id) : r.payload = Undecodable
    THEN "None"
    ELSE "Ok"

\* QueryContext::commit panics when the statement fails, a rejected insert
\* included
query_commit_result(tbl, view, context, fault) ==
    LET r == update_view(tbl, view, context)
    IN IF fault # "none" \/ r.result # "Ok"
       THEN [tbl |-> tbl, result |-> "panic"]
       ELSE r

\* PostgresSnapshotStore::load: the events of get_events, and the default
\* (empty) list when get_events returns an error
store_load(tbl, aggregate_id, fault) ==
    IF select_events_result(tbl, aggregate_id, fault) = "Ok"
    THEN get_events(tbl, aggregate_id)
    ELSE <<>>

\* PostgresSnapshotStore::commit as one call: the event insert, then the
\* snapshot write, each a statement of its own; `fault` is what the snapshot
\* write meets
store_commit(db, context, aggregate_id, payloads, metadata, fault, wrap) ==
    LET applied == [context EXCEPT !.aggregate = Apply(context.aggregate, payloads)]
        wrapped_events == wrap_events(aggregate_id, context.current_sequence,
                                      payloads, metadata)
        r == commit_events(db, context, aggregate_id, payloads, metadata)
        peek == peek_at_last_sequence(wrapped_events, wrap)
    IN IF r.result # "Ok"
       THEN [db |-> r.db, result |-> ToAggregateError(r.result)]
       ELSE IF peek.panic
       THEN [db |-> r.db, result |-> "panic"]
       ELSE IF fault # "none"
       THEN [db |-> r.db, result |-> ToAggregateError(BackendError(fault))]
       ELSE LET s == commit_snapshot(r.db.snapshots, applied, aggregate_id,
                                     peek.value)
            IN [db |-> DB(r.db.events, s.tbl),
                result |-> ToAggregateError(s.result)]

IdleWriter ==
    [pc |-> "idle", path |-> "none", id |-> "none",
     ctx |-> [current_sequence |-> 0, current_snapshot |-> 0, aggregate |-> Default],
     batch |-> <<>>, result |-> "none", dirty |-> FALSE, head |-> 0]

Init ==
    /\ events = {}
    /\ snapshots = {}
    /\ views = {}
    /\ last = NoCall
    /\ wr = [w \in Writers |-> IdleWriter]
    /\ rs = NoStream

\* ------------------------- calls on SqliteEventRepository: events only
InsertEvents ==
    \E id \in Ids, ss \in SeqLists, pl \in Payloads :
        LET evs == Batch(id, ss, pl)
            r == insert_events(DB(events, snapshots), evs)
        IN /\ events' = r.db.events
           /\ snapshots' = r.db.snapshots
           /\ last' = [NoCall EXCEPT !.op = "insert_events", !.result = r.result,
                                     !.events = evs, !.payload = pl]
           /\ UNCHANGED <<views, wr, rs>>

Next == InsertEvents

Spec == Init /\ [][Next]_vars

\* --------------- calls on SqliteEventRepository: events and snapshots
Route(snapshot_update) ==
    IF snapshot_update = <<>> THEN "persist_events"
    ELSE IF snapshot_update[3] = 1 THEN "persist_insert" ELSE "persist_update"

PersistCall(id, ss, pl, su, wrap) ==
    LET evs == Batch(id, ss, pl)
        r == persist(DB(events, snapshots), evs, su, wrap)
    IN /\ events' = r.db.events
       /\ snapshots' = r.db.snapshots
       /\ last' = [NoCall EXCEPT !.op = Route(su), !.result = r.result,
                                 !.events = evs, !.snapshot_update = su,
                                 !.payload = "none"]
       /\ UNCHANGED <<views, wr, rs>>

Persist ==
    \E id \in {"A"}, ss \in SnapSeqLists, pl \in Payloads :
      \E su \in SnapshotUpdates({"A"}, pl) :
        PersistCall(id, ss, pl, su, TRUE)

\* a snapshot update carrying current_snapshot = 0, under either build
PersistZero ==
    \E id \in {"A"}, ss \in SnapSeqLists, pl \in Payloads, wrap \in BOOLEAN :
        PersistCall(id, ss, pl, <<id, <<pl>>, 0>>, wrap)

SnapNext == Persist \/ PersistZero

SnapSpec == Init /\ [][SnapNext]_vars

\* ------------------------------------------ calls on SqliteViewRepository
UpdateView ==
    \E view_id \in ViewIds, version \in 0..MaxVersion, pl \in Payloads :
        LET r == update_view(views, pl, [view_instance_id |-> view_id,
                                         version |-> version])
        IN /\ views' = r.tbl
           /\ last' = [NoCall EXCEPT !.op = "update_view", !.result = r.result,
                                     !.view_id = view_id, !.version = version,
                                     !.payload = pl]
           /\ UNCHANGED <<events, snapshots, wr, rs>>

ViewNext == UpdateView

ViewSpec == Init /\ [][ViewNext]_vars

\* ------------------------------- writers: load a context, then commit it
PayloadLists == UNION {[1..n -> Payloads] : n \in BatchLens}

LogHead(tbl, id) ==
    LET es == get_events(tbl, id) IN IF es = <<>> THEN 0 ELSE Last(es).sequence

\* the writer's own record, with every other writer marked as overtaken when
\* the database changed under it
Step(w, rec, changed) ==
    [o \in Writers |->
        IF o = w THEN rec
        ELSE IF changed /\ wr[o].pc # "idle" THEN [wr[o] EXCEPT !.dirty = TRUE]
        ELSE wr[o]]

Load(w) ==
    /\ wr[w].pc \in {"idle", "done"}
    /\ \E id \in StoreIds, path \in {"events", "snapshot"} :
          wr' = Step(w, [IdleWriter EXCEPT
                            !.pc = "loaded", !.path = path, !.id = id,
                            !.ctx = IF path = "events"
                                    THEN load_event_context(events, id)
                                    ELSE load_aggregate(snapshots, id),
                            !.head = LogHead(events, id)], FALSE)
    /\ UNCHANGED <<events, snapshots, views, last, rs>>

\* the plain event store commits through persist without a snapshot
CommitEventStore(w) ==
    /\ wr[w].pc = "loaded"
    /\ wr[w].path = "events"
    /\ \E payloads \in PayloadLists :
          /\ wr[w].ctx.current_sequence + Len(payloads) <= MaxSeq
          /\ LET r == persist(DB(events, snapshots),
                              wrap_events(wr[w].id, wr[w].ctx.current_sequence,
                                          payloads, w), <<>>, TRUE)
             IN /\ events' = r.db.events
                /\ snapshots' = r.db.snapshots
                /\ wr' = Step(w, [wr[w] EXCEPT !.pc = "done", !.batch = payloads,
                                              !.result = r.result],
                              r.db.events # events)
    /\ UNCHANGED <<views, last, rs>>

\* PostgresSnapshotStore::commit up to peek_at_last_sequence
CommitEvents(w) ==
    /\ wr[w].pc = "loaded"
    /\ wr[w].path = "snapshot"
    /\ \E payloads \in PayloadLists, wrap \in BOOLEAN :
          /\ wr[w].ctx.current_sequence + Len(payloads) <= MaxSeq
          /\ wr[w].ctx.current_snapshot + 1 <= MaxVersion
          /\ (payloads # <<>> => wrap)
          /\ LET context == [wr[w].ctx EXCEPT
                                !.aggregate = Apply(wr[w].ctx.aggregate, payloads)]
                 r == commit_events(DB(events, snapshots), wr[w].ctx, wr[w].id,
                                    payloads, w)
                 peek == peek_at_last_sequence(
                             wrap_events(wr[w].id, wr[w].ctx.current_sequence,
                                         payloads, w), wrap)
             IN /\ events' = r.db.events
                /\ snapshots' = r.db.snapshots
                /\ wr' = Step(w,
                           IF r.result # "Ok"
                           THEN [wr[w] EXCEPT !.pc = "done", !.batch = payloads,
                                              !.ctx = context,
                                              !.result = ToAggregateError(r.result)]
                           ELSE IF peek.panic
                           THEN [wr[w] EXCEPT !.pc = "done", !.batch = payloads,
                                              !.ctx = context, !.result = "panic"]
                           ELSE [wr[w] EXCEPT !.pc = "snapshot", !.batch = payloads,
                                              !.ctx = context],
                           r.db.events # events)
    /\ UNCHANGED <<views, last, rs>>

\* PostgresSnapshotStore::commit from the snapshot write on
CommitSnapshot(w) ==
    /\ wr[w].pc = "snapshot"
    /\ LET peek == peek_at_last_sequence(
                       wrap_events(wr[w].id, wr[w].ctx.current_sequence,
                                   wr[w].batch, w), TRUE)
           r == commit_snapshot(snapshots, wr[w].ctx, wr[w].id, peek.value)
       IN /\ snapshots' = r.tbl
          /\ wr' = Step(w, [wr[w] EXCEPT !.pc = "done",
                                        !.result = ToAggregateError(r.result)],
                        r.tbl # snapshots)
    /\ UNCHANGED <<events, views, last, rs>>

StoreNext ==
    \E w \in Writers :
        Load(w) \/ CommitEventStore(w) \/ CommitEvents(w) \/ CommitSnapshot(w)

StoreSpec == Init /\ [][StoreNext]_vars

\* ------------------------- writers on the snapshot-backed store only
LoadAggregate(w) == Load(w) /\ wr'[w].path = "snapshot"

SnapStoreNext ==
    \E w \in Writers : LoadAggregate(w) \/ CommitEvents(w) \/ CommitSnapshot(w)

SnapStoreSpec == Init /\ [][SnapStoreNext]_vars

\* ------------------------------------------------ replay of the event log
\* one event appended at the head of an aggregate's log
AppendEvent ==
    \E id \in Ids, pl \in Payloads :
        /\ LogHead(events, id) < MaxSeq
        /\ LET r == insert_events(DB(events, snapshots),
                                  <<Event(id, LogHead(events, id) + 1, pl, "m")>>)
           IN events' = r.db.events
        /\ UNCHANGED <<snapshots, views, last, wr, rs>>

\* a stored event becomes undecodable
Damage ==
    \E e \in events :
        /\ e.payload # Undecodable
        /\ events' = (events \ {e}) \cup {[e EXCEPT !.payload = Undecodable]}
        /\ UNCHANGED <<snapshots, views, last, wr, rs>>

StreamEvents ==
    \E id \in Ids, channel_size \in ChannelSizes :
        /\ rs.kind = "none" \/ rs.ended \/ rs.dropped
        /\ rs' = stream_events(events, "one", id, channel_size)
        /\ UNCHANGED <<events, snapshots, views, last, wr>>

StreamAllEvents ==
    /\ rs.kind = "none" \/ rs.ended \/ rs.dropped
    /\ \E channel_size \in ChannelSizes :
          rs' = stream_events(events, "all", "", channel_size)
    /\ UNCHANGED <<events, snapshots, views, last, wr>>

\* the consumer's next(): a buffered item, or the end once the feed is gone
StreamRecv ==
    /\ rs.kind # "none"
    /\ ~rs.ended
    /\ ~rs.dropped
    /\ IF rs.buffer # <<>>
       THEN rs' = [rs EXCEPT !.received = Append(@, Head(rs.buffer)),
                             !.buffer = Tail(rs.buffer)]
       ELSE /\ rs.feed = "dropped"
            /\ rs' = [rs EXCEPT !.ended = TRUE]
    /\ UNCHANGED <<events, snapshots, views, last, wr>>

StreamNext == AppendEvent \/ Damage \/ StreamEvents \/ StreamAllEvents \/ StreamRecv

StreamSpec == Init /\ [][StreamNext]_vars

\* the consumer drops the stream before it has seen the end; whatever the
\* producer side still holds is the producer's to release
StreamDrop ==
    /\ rs.kind # "none"
    /\ ~rs.ended
    /\ ~rs.dropped
    /\ rs' = [rs EXCEPT !.dropped = TRUE, !.buffer = <<>>]
    /\ UNCHANGED <<events, snapshots, views, last, wr>>

DropNext ==
    AppendEvent \/ StreamEvents \/ StreamAllEvents \/ StreamRecv \/ StreamDrop

DropSpec == Init /\ [][DropNext]_vars

\* a consumer that keeps calling next() on the stream it holds
DrainNext == AppendEvent \/ StreamEvents \/ StreamAllEvents \/ StreamRecv

DrainSpec == Init /\ [][DrainNext]_vars /\ WF_vars(StreamRecv)

\* --------------------------------------------- calls that meet failures
\* the tables are filled by calls that succeed
SeedEvent ==
    /\ LogHead(events, "A") < MaxSeq
    /\ LET r == insert_events(DB(events, snapshots),
                              <<Event("A", LogHead(events, "A") + 1, "p", "m")>>)
       IN events' = r.db.events
    /\ UNCHANGED <<snapshots, views, last, wr, rs>>

SeedSnapshot ==
    \E cs \in 1..MaxVersion :
        LET r == persist(DB(events, snapshots), <<>>, <<"A", <<"p">>, cs>>, TRUE)
        IN /\ r.result = "Ok"
           /\ snapshots' = r.db.snapshots
           /\ UNCHANGED <<events, views, last, wr, rs>>

SeedView ==
    \E version \in 0..(MaxVersion - 1) :
        LET r == update_view(views, "p", [view_instance_id |-> "v1",
                                          version |-> version])
        IN /\ r.result = "Ok"
           /\ r.tbl # views
           /\ views' = r.tbl
           /\ UNCHANGED <<events, snapshots, last, wr, rs>>

DamageSnapshot ==
    \E r \in snapshots :
        /\ r.payload # <<Undecodable>>
        /\ snapshots' = (snapshots \ {r}) \cup {[r EXCEPT !.payload = <<Undecodable>>]}
        /\ UNCHANGED <<events, views, last, wr, rs>>

DamageView ==
    \E r \in views :
        /\ r.payload # Undecodable
        /\ views' = (views \ {r}) \cup {[r EXCEPT !.payload = Undecodable]}
        /\ UNCHANGED <<events, snapshots, last, wr, rs>>

GetEvents ==
    \E fault \in ReadFaults :
        /\ last' = [NoCall EXCEPT !.op = "get_events", !.id = "A", !.fault = fault,
                                  !.result = select_events_result(events, "A", fault)]
        /\ UNCHANGED <<events, snapshots, views, wr, rs>>

GetSnapshot ==
    \E fault \in ReadFaults :
        /\ last' = [NoCall EXCEPT !.op = "get_snapshot", !.id = "A", !.fault = fault,
                                  !.result = get_snapshot_result(snapshots, "A", fault)]
        /\ UNCHANGED <<events, snapshots, views, wr, rs>>

FaultyInsertEvents ==
    \E sequence \in 1..MaxSeq, fault \in Faults :
        LET evs == <<Event("A", sequence, "p", "m")>>
            r == insert_events_result(DB(events, snapshots), evs, fault)
        IN /\ events' = r.db.events
           /\ last' = [NoCall EXCEPT !.op = "insert_events", !.id = "A",
                                     !.fault = fault, !.events = evs,
                                     !.result = r.result]
           /\ UNCHANGED <<snapshots, views, wr, rs>>

ViewLoad ==
    \E fault \in ReadFaults :
        /\ last' = [NoCall EXCEPT !.op = "load", !.view_id = "v1", !.fault = fault,
                                  !.result = load_result(views, "v1", fault)]
        /\ UNCHANGED <<events, snapshots, views, wr, rs>>

FaultyUpdateView ==
    \E version \in 0..MaxVersion, fault \in Faults :
        LET r == update_view_result(views, "q", [view_instance_id |-> "v1",
                                                 version |-> version], fault)
        IN /\ views' = r.tbl
           /\ last' = [NoCall EXCEPT !.op = "update_view", !.view_id = "v1",
                                     !.version = version, !.payload = "q",
                                     !.fault = fault, !.result = r.result]
           /\ UNCHANGED <<events, snapshots, wr, rs>>

LoadAggregateCall ==
    \E fault \in {"none", "DiskIo"} :
        /\ last' = [NoCall EXCEPT !.op = "load_aggregate", !.id = "A",
                                  !.fault = fault,
                                  !.result = load_aggregate_result(snapshots, "A", fault)]
        /\ UNCHANGED <<events, snapshots, views, wr, rs>>

QueryLoad ==
    \E fault \in {"none", "DiskIo"} :
        /\ last' = [NoCall EXCEPT !.op = "query_load", !.view_id = "v1",
                                  !.fault = fault,
                                  !.result = query_load_result(views, "v1", fault)]
        /\ UNCHANGED <<events, snapshots, views, wr, rs>>

QueryCommit ==
    \E version \in 0..MaxVersion, fault \in {"none", "DiskIo"} :
        LET r == query_commit_result(views, "q", [view_instance_id |-> "v1",
                                                  version |-> version], fault)
        IN /\ views' = r.tbl
           /\ last' = [NoCall EXCEPT !.op = "query_commit", !.view_id = "v1",
                                     !.version = version, !.payload = "q",
                                     !.fault = fault, !.result = r.result]
           /\ UNCHANGED <<events, snapshots, wr, rs>>

StoreLoad ==
    \E fault \in ReadFaults :
        /\ last' = [NoCall EXCEPT !.op = "store_load", !.id = "A", !.fault = fault,
                                  !.result = "Ok",
                                  !.events = store_load(events, "A", fault)]
        /\ UNCHANGED <<events, snapshots, views, wr, rs>>

\* load_aggregate followed by a commit of one event
StoreCommit ==
    \E fault \in {"none", "DiskIo"} :
        LET context == load_aggregate(snapshots, "A")
            r == store_commit(DB(events, snapshots), context, "A", <<"q">>, "w",
                              fault, TRUE)
        IN /\ context.current_sequence < MaxSeq
           /\ context.current_snapshot < MaxVersion
           /\ \A x \in snapshots : x.payload # <<Undecodable>>
           /\ events' = r.db.events
           /\ snapshots' = r.db.snapshots
           /\ last' = [NoCall EXCEPT !.op = "store_commit", !.id = "A",
                                     !.fault = fault, !.result = r.result,
                                     !.events = wrap_events("A", context.current_sequence,
                                                            <<"q">>, "w"),
                                     !.version = context.current_snapshot]
           /\ UNCHANGED <<views, wr, rs>>

FaultNext ==
    \/ SeedEvent \/ SeedSnapshot \/ SeedView
    \/ StoreLoad \/ StoreCommit
    \/ Damage \/ DamageSnapshot \/ DamageView
    \/ GetEvents \/ GetSnapshot \/ FaultyInsertEvents
    \/ ViewLoad \/ FaultyUpdateView
    \/ LoadAggregateCall \/ QueryLoad \/ QueryCommit

FaultSpec == Init /\ [][FaultNext]_vars

\* ------------------------------------------------- reads and what they return
\* select_events with its decoding: the rows of the query, each through
\* deser_event, the first failure ending the call
select_events_call(rows) ==
    LET bad == {i \in 1..Len(rows) : deser_event(rows[i]).err # "none"}
    IN IF bad # {}
       THEN [result |-> FromSqliteAggregateError(deser_event(rows[Min(bad)]).err),
             events |-> <<>>]
       ELSE [result |-> "Ok",
             events |-> [i \in 1..Len(rows) |-> deser_event(rows[i]).event]]

ReadEvents ==
    \E id \in Ids :
        LET r == select_events_call(get_events(events, id))
        IN /\ last' = [NoCall EXCEPT !.op = "get_events", !.id = id,
                                     !.result = r.result, !.events = r.events]
           /\ UNCHANGED <<events, snapshots, views, wr, rs>>

ReadLastEvents ==
    \E id \in Ids, last_sequence \in 0..(MaxSeq + 1) :
        LET r == select_events_call(get_last_events(events, id, last_sequence))
        IN /\ last' = [NoCall EXCEPT !.op = "get_last_events", !.id = id,
                                     !.last_sequence = last_sequence,
                                     !.result = r.result, !.events = r.events]
           /\ UNCHANGED <<events, snapshots, views, wr, rs>>

\* the Option a get_snapshot returns, as a list of no or one snapshot
ReadSnapshot ==
    \E id \in Ids :
        /\ last' = [NoCall EXCEPT !.op = "get_snapshot", !.id = id,
                                  !.result = get_snapshot_result(snapshots, id, "none"),
                                  !.value = SortBySeq({[sequence |-> r.last_sequence,
                                                        row |-> r] :
                                                       r \in get_snapshot(snapshots, id)})]
        /\ UNCHANGED <<events, snapshots, views, wr, rs>>

ReadAggregate ==
    \E id \in Ids :
        /\ last' = [NoCall EXCEPT !.op = "load_aggregate", !.id = id,
                                  !.result = load_aggregate_result(snapshots, id, "none"),
                                  !.value = <<load_aggregate(snapshots, id)>>]
        /\ UNCHANGED <<events, snapshots, views, wr, rs>>

\* insert_events of a batch with any sequence numbers, for either aggregate
InsertBatch ==
    \E id \in Ids, ss \in SeqLists :
        LET evs == Batch(id, ss, "p")
            r == insert_events(DB(events, snapshots), evs)
        IN /\ events' = r.db.events
           /\ last' = [NoCall EXCEPT !.op = "insert_events", !.id = id,
                                     !.result = r.result, !.events = evs]
           /\ UNCHANGED <<snapshots, views, wr, rs>>

ReadNext ==
    \/ InsertBatch \/ SeedSnapshot
    \/ ReadEvents \/ ReadLastEvents \/ ReadSnapshot \/ ReadAggregate

ReadSpec == Init /\ [][ReadNext]_vars

\* commits with and without a snapshot save, next to view updates
KeepNext == Persist \/ SeedView

KeepSpec == Init /\ [][KeepNext]_vars

\* persist with the batch and the snapshot update each naming an aggregate of
\* its own, the same one or not
PersistAny ==
    \E id \in Ids, ss \in SnapSeqLists :
      \E su \in SnapshotUpdates(Ids, "p") :
        PersistCall(id, ss, "p", su, TRUE)

FrameNext == PersistAny

FrameSpec == Init /\ [][FrameNext]_vars

\* view updates next to a store that holds events and a snapshot
ViewFrameNext == UpdateView \/ SeedEvent \/ SeedSnapshot

ViewFrameSpec == Init /\ [][ViewFrameNext]_vars

\* --------------------------------- GenericQueryRepository::apply_events
DefaultView == "default"
EventLists == {<<>>} \cup {<<a>> : a \in Payloads}
                     \cup {<<a, b>> : a \in Payloads, b \in Payloads}
ErrorHandlers == {"None", "Some"}

\* View::update of the view of the model: the view keeps the payload of the
\* event it was given last
view_update(view, event) == event

RECURSIVE updated(_, _)
updated(view, evs) ==
    IF evs = <<>> THEN view
    ELSE updated(view_update(view, Head(evs)), Tail(evs))

\* load_mut: Err when the query fails or the row's payload cannot be decoded;
\* the row's view with its version, or the default view with version 0
load_mut(tbl, aggregate_id, fault) ==
    IF fault # "none" THEN [result |-> "Err", view |-> DefaultView, version |-> 0]
    ELSE IF ViewRows(tbl, aggregate_id) = {}
    THEN [result |-> "Ok", view |-> DefaultView, version |-> 0]
    ELSE LET row == CHOOSE r \in ViewRows(tbl, aggregate_id) : TRUE
         IN IF row.payload = Undecodable
            THEN [result |-> "Err", view |-> DefaultView, version |-> 0]
            ELSE [result |-> "Ok", view |-> row.payload, version |-> row.version]

\* apply_events: on Ok the events are applied in order and the view is
\* committed, a failed commit panics; on Err the handler is called if one is
\* configured and nothing else happens
apply_events(tbl, aggregate_id, evs, error_handler, load_fault, commit_fault) ==
    LET l == load_mut(tbl, aggregate_id, load_fault)
    IN IF l.result = "Ok"
       THEN LET c == query_commit_result(tbl, updated(l.view, evs),
                                         [view_instance_id |-> aggregate_id,
                                          version |-> l.version], commit_fault)
            IN [tbl |-> c.tbl, result |-> c.result, handled |-> 0]
       ELSE [tbl |-> tbl, result |-> "Ok",
             handled |-> IF error_handler = "None" THEN 0 ELSE 1]

ApplyEvents ==
    \E id \in ViewIds, evs \in EventLists, h \in ErrorHandlers,
       lf \in {"none", "DiskIo"}, cf \in {"none", "DiskIo"} :
        LET r == apply_events(views, id, evs, h, lf, cf)
        IN /\ \A x \in ViewRows(views, id) : x.version < MaxVersion
           /\ lf = "none" \/ cf = "none"
           /\ views' = r.tbl
           /\ last' = [NoCall EXCEPT !.op = "apply_events", !.view_id = id,
                                     !.events = evs, !.error_handler = h,
                                     !.fault = IF lf # "none" THEN lf ELSE cf,
                                     !.value = <<lf, cf>>,
                                     !.result = r.result, !.handled = r.handled]
           /\ UNCHANGED <<events, snapshots, wr, rs>>

QueryNext == ApplyEvents \/ DamageView

QuerySpec == Init /\ [][QueryNext]_vars

\* ------------------------------------- configuration of the repository
DEFAULT_EVENT_TABLE == "events"
DEFAULT_SNAPSHOT_TABLE == "snapshots"
DEFAULT_STREAMING_CHANNEL_SIZE == 200

EventTables == {DEFAULT_EVENT_TABLE, "my_event_table", "e2"}
SnapshotTables == {DEFAULT_SNAPSHOT_TABLE, "my_snapshot_table", "s2"}
ConfiguredSizes == {1, 2, 1000}

\* the repository as its configuration: the tables its statements are built
\* for and the size of its streaming channel
use_tables(events_table, snapshots_table) ==
    [events_table |-> events_table, snapshots_table |-> snapshots_table,
     stream_channel_size |-> DEFAULT_STREAMING_CHANNEL_SIZE]

new == use_tables(DEFAULT_EVENT_TABLE, DEFAULT_SNAPSHOT_TABLE)

with_streaming_channel_size(self, stream_channel_size) ==
    [events_table |-> self.events_table, snapshots_table |-> self.snapshots_table,
     stream_channel_size |-> stream_channel_size]

with_tables(self, events_table, snapshots_table) ==
    use_tables(events_table, snapshots_table)

\* last.value is <<the repository before the call, the repository it returned>>
New ==
    /\ last' = [NoCall EXCEPT !.op = "new", !.value = <<new, new>>]
    /\ UNCHANGED <<events, snapshots, views, wr, rs>>

WithStreamingChannelSize ==
    \E n \in ConfiguredSizes :
        /\ Len(last.value) = 2
        /\ last' = [NoCall EXCEPT
                       !.op = "with_streaming_channel_size",
                       !.value = <<last.value[2],
                                   with_streaming_channel_size(last.value[2], n)>>]
        /\ UNCHANGED <<events, snapshots, views, wr, rs>>

WithTables ==
    \E e \in EventTables, t \in SnapshotTables :
        /\ Len(last.value) = 2
        /\ last' = [NoCall EXCEPT
                       !.op = "with_tables",
                       !.value = <<last.value[2], with_tables(last.value[2], e, t)>>]
        /\ UNCHANGED <<events, snapshots, views, wr, rs>>

ConfigNext == New \/ WithStreamingChannelSize \/ WithTables

ConfigSpec == Init /\ [][ConfigNext]_vars

\* ------------------------------------------- the pool and the transaction
\* default_sqlite_pool builds a pool of one connection
PoolSize == 1

\* the operations that open a transaction on their connection
TxOps == {"persist_events", "persist_insert", "persist_update"}

\* what a call still holds once it has returned: its connection and its
\* transaction are locals of the call, dropped on every way out of it
\* (return, `?`, unwinding), the transaction before the connection
held_after_keep_on_error(result) ==
    IF result = "Ok" THEN [conn |-> 0, tx |-> "none"]
    ELSE [conn |-> 1, tx |-> "open"]

held_after(result) == [conn |-> 0, tx |-> "none"]

\* a call takes the connection from the pool: pool.get() as its first step,
\* which with every connection checked out cannot go on
Running == last.result = "running"

CallBegin(op, ss, su, view_id, version) ==
    /\ ~Running
    /\ last.conn < PoolSize
    /\ last' = [NoCall EXCEPT !.op = op, !.result = "running",
                              !.events = Batch("A", ss, "p"),
                              !.snapshot_update = su, !.view_id = view_id,
                              !.version = version, !.conn = last.conn + 1,
                              !.tx = IF op \in TxOps THEN "open" ELSE "none"]
    /\ UNCHANGED <<events, snapshots, views, wr, rs>>

BeginRead ==
    \E op \in {"get_events", "get_snapshot", "load"} :
        CallBegin(op, <<>>, <<>>, "v1", 0)

BeginPersist ==
    \E ss \in SnapSeqLists :
      \E su \in SnapshotUpdates({"A"}, "p") \cup {<<"A", <<"p">>, 0>>} :
        CallBegin(Route(su), ss, su, "none", 0)

BeginUpdateView ==
    \E version \in 0..MaxVersion :
        CallBegin("update_view", <<>>, <<>>, "v1", version)

\* the rest of the call, to its return
CallEnd ==
    /\ Running
    /\ \E wrap \in BOOLEAN :
         LET p == persist(DB(events, snapshots), last.events,
                          last.snapshot_update, wrap)
             v == update_view_result(views, "p",
                                     [view_instance_id |-> last.view_id,
                                      version |-> last.version], "none")
             result ==
                 CASE last.op = "get_events" ->
                          select_events_result(events, "A", "none")
                   [] last.op = "get_snapshot" ->
                          get_snapshot_result(snapshots, "A", "none")
                   [] last.op = "load" -> load_result(views, last.view_id, "none")
                   [] last.op = "update_view" -> v.result
                   [] OTHER -> p.result
         IN /\ events' = IF last.op \in TxOps THEN p.db.events ELSE events
            /\ snapshots' = IF last.op \in TxOps THEN p.db.snapshots ELSE snapshots
            /\ views' = IF last.op = "update_view" THEN v.tbl ELSE views
            /\ last' = [last EXCEPT !.result = result,
                                    !.conn = last.conn - 1 + held_after(result).conn,
                                    !.tx = held_after(result).tx]
    /\ UNCHANGED <<wr, rs>>

PoolNext == BeginRead \/ BeginPersist \/ BeginUpdateView \/ CallEnd

PoolSpec == Init /\ [][PoolNext]_vars

\* ======================================================================
\* Properties
\* ======================================================================
IsConflict(result) ==
    result \in {"OptimisticLock", "OptimisticLockError", "AggregateConflict"}

Fresh(tbl, evs) == \A i \in 1..Len(evs) : ~EventKeyTaken(tbl, evs[i])

LastSequenceOf(evs) == IF evs = <<>> THEN 0 ELSE Last(evs).sequence

\* C2: a batch written by one insert_events call is all-or-nothing. A call
\* that does not return Ok returns OptimisticLock and leaves what get_events
\* returns for every aggregate as it was, so no event of the batch that
\* carried a fresh sequence number is stored; a call that returns Ok has
\* stored every event of the batch.
C2_BatchAllOrNothing ==
    [][last'.op = "insert_events" =>
        LET evs == last'.events
        IN IF last'.result = "Ok"
           THEN \A i \in 1..Len(evs) : evs[i] \in events'
           ELSE /\ last'.result = "OptimisticLock"
                /\ \A id \in Ids : get_events(events', id) = get_events(events, id)
                /\ \A i \in 1..Len(evs) :
                      ~EventKeyTaken(events, evs[i]) => evs[i] \notin events'
    ]_vars

\* a rejected two-event batch whose first event carried a fresh sequence
\* number and whose second event hit a stored sequence
C2_Witness ==
    /\ last.op = "insert_events"
    /\ last.result = "OptimisticLock"
    /\ Len(last.events) = 2
    /\ ~EventKeyTaken(events, last.events[1])
    /\ EventKeyTaken(events, last.events[2])

\* C4: a persist call that carries events and a snapshot update stores both
\* or neither: when it returns Ok the events and the snapshot are stored, and
\* in every other outcome the event log and the snapshots are as before.
C4_EventsAndSnapshotAtomic ==
    [][last'.op \in {"persist_insert", "persist_update"} =>
        LET evs == last'.events
            su == last'.snapshot_update
        IN IF last'.result = "Ok"
           THEN /\ \A i \in 1..Len(evs) : evs[i] \in events'
                /\ \E r \in SnapshotRows(snapshots', su[1]) :
                      r.current_snapshot = su[3] /\ r.payload = su[2]
           ELSE events' = events /\ snapshots' = snapshots
    ]_vars

C7_InsertOnExistingSnapshot ==
    [][(last'.op = "persist_insert"
        /\ SnapshotRows(snapshots, last'.snapshot_update[1]) # {}) =>
        /\ last'.result = "OptimisticLockError"
        /\ snapshots' = snapshots
    ]_vars

\* an insert-path save rejected although its batch was acceptable: the
\* snapshot row stood in the way
C7_Witness ==
    /\ last.op = "persist_insert"
    /\ last.result = "OptimisticLockError"
    /\ Fresh(events, last.events)
    /\ last.events # <<>>
    /\ \E r \in SnapshotRows(snapshots, last.snapshot_update[1]) :
          r.payload # last.snapshot_update[2]

\* C8: update_view with a non-zero context version that differs from the
\* stored version of that view id reports the conflict and leaves the stored
\* row as it was.
C8_StaleViewContextConflicts ==
    [][(last'.op = "update_view" /\ last'.version # 0
        /\ \E r \in ViewRows(views, last'.view_id) : r.version # last'.version) =>
        /\ last'.result = "OptimisticLockError"
        /\ views' = views
    ]_vars

\* C9: update_view with context version 0 for a view id that has a stored row
\* returns the optimistic lock error and leaves the stored row as it was.
C9_ViewInsertOnExistingRow ==
    [][(last'.op = "update_view" /\ last'.version = 0
        /\ ViewRows(views, last'.view_id) # {}) =>
        /\ last'.result = "OptimisticLockError"
        /\ views' = views
    ]_vars

\* a version-0 update rejected for a stored row holding another payload
C9_Witness ==
    /\ last.op = "update_view"
    /\ last.version = 0
    /\ last.result = "OptimisticLockError"
    /\ \E r \in ViewRows(views, last.view_id) : r.payload # last.payload

\* C10: after update_view returned Ok, load and load_with_context of the
\* context's view id return the view just written, and the version returned
\* is the context's version + 1.
C10_UpdateThenLoad ==
    (last.op = "update_view" /\ last.result = "Ok") =>
        /\ load(views, last.view_id) = {last.payload}
        /\ load_with_context(views, last.view_id) =
              {<<last.payload, [view_instance_id |-> last.view_id,
                                version |-> last.version + 1]>>}

\* C1: a commit of N >= 1 events whose context carries the log's last
\* sequence k, with no other writer in between, returns Ok, stores the events
\* under the sequences k+1 .. k+N in the order given, and a load then returns
\* k+N events.
C1_CommitAppends ==
    \A w \in Writers :
        LET k == wr[w].ctx.current_sequence
            n == Len(wr[w].batch)
            es == get_events(events, wr[w].id)
        IN (wr[w].pc = "done" /\ n >= 1 /\ ~wr[w].dirty /\ k = wr[w].head) =>
              /\ wr[w].result = "Ok"
              /\ Len(es) = k + n
              /\ \A i \in 1..n : es[k + i] = Event(wr[w].id, k + i, wr[w].batch[i], w)

\* C3: two writers that commit non-empty batches for the same aggregate from
\* the same expected sequence through the event repository: exactly one
\* returns Ok, the other returns the conflict, and no event of the loser is
\* stored after the expected sequence.
Raced(w1, w2) ==
    /\ w1 # w2
    /\ wr[w1].pc = "done" /\ wr[w2].pc = "done"
    /\ wr[w1].path = "events" /\ wr[w2].path = "events"
    /\ wr[w1].id = wr[w2].id
    /\ wr[w1].ctx.current_sequence = wr[w2].ctx.current_sequence
    /\ wr[w1].batch # <<>> /\ wr[w2].batch # <<>>

C3_OneWinnerOneConflict ==
    \A w1, w2 \in Writers :
        (Raced(w1, w2) /\ wr[w1].result # "Ok") =>
            /\ wr[w2].result = "Ok"
            /\ wr[w1].result = "OptimisticLockError"
            /\ \A e \in events :
                  (e.aggregate_id = wr[w1].id
                   /\ e.sequence > wr[w1].ctx.current_sequence)
                  => e.metadata # w1

C3_ExactlyOne ==
    \A w1, w2 \in Writers :
        Raced(w1, w2) => ~(wr[w1].result = "Ok" /\ wr[w2].result = "Ok")

C5_LogContiguous ==
    \A id \in StoreIds :
        LET es == get_events(events, id)
        IN \A i \in 1..Len(es) : es[i].sequence = i

\* a log written by both writers, after a commit of each path was rejected
C5_Witness ==
    /\ \E id \in StoreIds :
          /\ Len(get_events(events, id)) >= 2
          /\ \A w \in Writers : \E e \in events : e.metadata = w
    /\ \E w \in Writers : wr[w].pc = "done" /\ IsConflict(wr[w].result)
                          /\ wr[w].batch # <<>>

\* what a drained stream delivered, as event records
Delivered == [i \in 1..Len(rs.received) |-> rs.received[i].event]

Decodable(tbl) == \A e \in tbl : e.payload # Undecodable

\* C11: a stream obtained from stream_events for one aggregate and drained to
\* its end, with the log unchanged meanwhile, has delivered exactly the events
\* get_events returns for that aggregate, in ascending sequence order and
\* without an error item.
C11_StreamYieldsEvents ==
    (rs.kind = "one" /\ rs.ended /\ events = rs.start /\ Decodable(events)) =>
        /\ \A i \in 1..Len(rs.received) : rs.received[i].err = "none"
        /\ Delivered = get_events(events, rs.id)

\* C12: a stream obtained from stream_all_events and drained to its end has
\* delivered every event that was in the log when the stream was made, in
\* (aggregate_id, sequence) order, whatever was committed meanwhile.
C12_StreamAllYieldsStart ==
    (rs.kind = "all" /\ rs.ended /\ Decodable(events)) =>
        /\ \A e \in rs.start : \E i \in 1..Len(Delivered) : Delivered[i] = e
        /\ \A i, j \in 1..Len(Delivered) :
              i < j => \/ IdRank(Delivered[i].aggregate_id) < IdRank(Delivered[j].aggregate_id)
                       \/ /\ Delivered[i].aggregate_id = Delivered[j].aggregate_id
                          /\ Delivered[i].sequence < Delivered[j].sequence

C22_GetLastEventsIsTail ==
    last.op = "get_last_events" =>
        /\ last.result = "Ok"
        /\ \A i \in 1..Len(last.events) :
              /\ last.events[i] \in events
              /\ last.events[i].aggregate_id = last.id
              /\ last.events[i].sequence > last.last_sequence
        /\ \A e \in events :
              (e.aggregate_id = last.id /\ e.sequence > last.last_sequence) =>
                  \E i \in 1..Len(last.events) : last.events[i] = e
        /\ \A i, j \in 1..Len(last.events) :
              i < j => last.events[i].sequence < last.events[j].sequence
        /\ (\A e \in events : e.aggregate_id = last.id =>
                                  e.sequence <= last.last_sequence)
               => last.events = <<>>

C22_Witness ==
    /\ last.op = "get_last_events"
    /\ last.last_sequence = 1
    /\ Len(get_events(events, last.id)) = 2
    /\ Len(last.events) = 1
    /\ last.events[1].sequence = 2
    /\ \E e \in events : e.aggregate_id # last.id

\* what a load of an aggregate's events returns
LoadedEvents(tbl, id) == select_events_call(get_events(tbl, id)).events

\* C23: a load of an aggregate returns the stored event records of that
\* aggregate, one per sequence, and no step (a commit, accepted or rejected,
\* with or without a snapshot save, or a view update) removes or changes a
\* stored event record: a record once returned by a load is returned,
\* unchanged and as the only record of its sequence, by every later load.
C23_EventsImmutable ==
    /\ [](\A id \in Ids :
            LET loaded == LoadedEvents(events, id)
            IN /\ \A e \in events :
                     e.aggregate_id = id =>
                         \E i \in 1..Len(loaded) : loaded[i] = e
               /\ \A i \in 1..Len(loaded) :
                     /\ loaded[i] \in events
                     /\ \A j \in 1..Len(loaded) :
                           loaded[j].sequence = loaded[i].sequence => j = i)
    /\ [][\A e \in events : e \in events']_vars

C23_Witness ==
    /\ IsConflict(last.result)
    /\ last.events # <<>>
    /\ \E e \in events : e.sequence = last.events[1].sequence
                          /\ e.payload # last.events[1].payload
    /\ \E r \in snapshots : r.current_snapshot >= 2
    /\ views # {}

\* an aggregate id without a stored event or snapshot: in ReadSpec every
\* commit is all-or-nothing, so these are the ids without a successful commit
NeverCommitted(id) ==
    /\ \A e \in events : e.aggregate_id # id
    /\ \A r \in snapshots : r.aggregate_id # id

C26_CommitAtomic ==
    [][(last' # last /\ last'.op = "store_commit" /\ last'.result # "Ok") =>
          \A i \in 1..Len(last'.events) :
             \A j \in 1..Len(get_events(events', last'.id)) :
                get_events(events', last'.id)[j] # last'.events[i]]_vars

\* C27: PostgresSnapshotStore::load never returns the empty list for an
\* aggregate that has stored events; a failure of the read is not turned into
\* "no events".
C27_LoadReportsReadFailure ==
    [][(last' # last /\ last'.op = "store_load"
        /\ get_events(events', last'.id) # <<>>) =>
          last'.events # <<>>]_vars

StoredVersion(tbl, view_id) ==
    IF ViewRows(tbl, view_id) = {} THEN 0
    ELSE (CHOOSE r \in ViewRows(tbl, view_id) : TRUE).version

\* C29: the stored version of a view instance counts the update_view calls on
\* it that returned Ok: such a call raises it by exactly 1 (from 0 for a view
\* without a row), and nothing else changes it, so it never decreases.
C29_ViewVersionCountsUpdates ==
    [][\A view_id \in ViewIds :
         IF last'.op = "update_view" /\ last'.view_id = view_id
            /\ last'.result = "Ok"
         THEN StoredVersion(views', view_id) = StoredVersion(views, view_id) + 1
         ELSE StoredVersion(views', view_id) = StoredVersion(views, view_id)
    ]_vars

\* C30: the snapshot write of PostgresSnapshotStore::commit goes by the
\* context's current_snapshot: with current_snapshot = 0 and no stored
\* snapshot it inserts version 1; with current_snapshot >= 1 equal to the
\* stored version it updates to current_snapshot + 1, also when the stored
\* last_sequence is 0; and whenever the commit returns Ok the stored version
\* is the context's current_snapshot + 1.
C30_SnapshotPathByVersion ==
    [][\A w \in Writers :
         (wr[w].pc = "snapshot" /\ wr'[w].pc = "done") =>
            LET cs == wr[w].ctx.current_snapshot
                rows == SnapshotRows(snapshots, wr[w].id)
                after == SnapshotRows(snapshots', wr[w].id)
            IN /\ (cs = 0 /\ rows = {}) =>
                     /\ wr'[w].result = "Ok"
                     /\ \A r \in after : r.current_snapshot = 1
               /\ (cs >= 1 /\ \E r \in rows : r.current_snapshot = cs) =>
                     /\ wr'[w].result = "Ok"
                     /\ \A r \in after : r.current_snapshot = cs + 1
               /\ wr'[w].result = "Ok" =>
                     /\ after # {}
                     /\ \A r \in after : r.current_snapshot = cs + 1
    ]_vars

\* C20: when an event selected by the stream's query cannot be decoded, the
\* drained stream's last item is an error item: it does not end with no item
\* or with an event as its last item.
C20_StreamErrorIsTerminalItem ==
    (rs.kind # "none" /\ rs.ended
     /\ \E i \in 1..Len(ReplayRows(rs.start, rs.kind, rs.id)) :
           /\ ReplayRows(rs.start, rs.kind, rs.id)[i].payload = Undecodable
           /\ ReplayRows(rs.start, rs.kind, rs.id)[i] \in events) =>
        /\ rs.received # <<>>
        /\ Last(rs.received).err # "none"

\* no commit is between its event insert and its snapshot write
Quiescent == \A w \in Writers : wr[w].pc # "snapshot"

\* load_aggregate followed by commit of `payloads`, run alone on `db`
RetryCommit(db, id, payloads) ==
    LET ctx == load_aggregate(db.snapshots, id)
        context == [ctx EXCEPT !.aggregate = Apply(ctx.aggregate, payloads)]
        r == commit_events(db, ctx, id, payloads, "w1")
        peek == peek_at_last_sequence(
                    wrap_events(id, ctx.current_sequence, payloads, "w1"), TRUE)
    IN IF r.result # "Ok"
       THEN ToAggregateError(r.result)
       ELSE ToAggregateError(
                commit_snapshot(r.db.snapshots, context, id, peek.value).result)

\* C13: once a commit has returned the conflict error and no other commit is
\* under way, a fresh load_aggregate followed by a commit of new events
\* succeeds.
C13_ConflictRecoverable ==
    (Quiescent /\ \E w \in Writers : /\ wr[w].pc = "done"
                                     /\ wr[w].result = "AggregateConflict") =>
        \A id \in StoreIds, payloads \in PayloadLists \ {<<>>} :
            RetryCommit(DB(events, snapshots), id, payloads) = "Ok"

\* C14: a context made by load_aggregate from a stored snapshot carries the
\* head of the event log as its current sequence and an aggregate that has
\* every event of the log applied.
C14_LoadCrossChecksLog ==
    \A w \in Writers :
        (wr[w].pc = "loaded" /\ wr[w].path = "snapshot"
         /\ wr[w].ctx.current_snapshot >= 1) =>
            /\ wr[w].ctx.current_sequence = wr[w].head
            /\ Len(wr[w].ctx.aggregate) = wr[w].head

\* C15: after a persist call with a snapshot update has returned Ok, the
\* stored last_sequence of that aggregate is the sequence of the newest event
\* of its log, and it is not below the last_sequence stored before the call.
C15_LastSequenceIsLogHead ==
    [][(last'.op \in {"persist_insert", "persist_update"} /\ last'.result = "Ok") =>
        LET id == last'.snapshot_update[1]
        IN \A r \in SnapshotRows(snapshots', id) :
              /\ r.last_sequence = LogHead(events', id)
              /\ \A o \in SnapshotRows(snapshots, id) :
                    r.last_sequence >= o.last_sequence
    ]_vars

ErrorKinds ==
    {"OptimisticLockError", "ConnectionError", "DeserializationError", "UnknownError"}

\* the call recorded in `call` reads a stored payload that cannot be decoded
DecodeFails(call) ==
    \/ /\ call.op = "get_events"
       /\ \E e \in events : e.aggregate_id = call.id /\ e.payload = Undecodable
    \/ /\ call.op \in {"get_snapshot", "load_aggregate"}
       /\ \E r \in SnapshotRows(snapshots, call.id) : r.payload = <<Undecodable>>
    \/ /\ call.op \in {"load", "query_load"}
       /\ \E r \in ViewRows(views, call.view_id) : r.payload = Undecodable

\* the write recorded in `call` is rejected by a unique index
UniqueRejected(call) ==
    \/ call.op = "insert_events" /\ ~Fresh(events, call.events)
    \/ /\ call.op = "update_view"
       /\ call.version = 0
       /\ ViewRows(views, call.view_id) # {}

\* C16: a call of the event repository or the view repository that cannot
\* obtain a pooled connection returns the error kind ConnectionError.
C16_PoolFailureIsConnectionError ==
    [][(last' # last /\ last'.fault = "PoolError") =>
        last'.result = "ConnectionError"
    ]_vars

\* C17: a write returns the conflict error exactly when a unique index
\* rejected it: a rejected write returns the conflict error, and a write that
\* met any other failure does not.
C17_ConflictIffUniqueRejection ==
    [][(last' # last /\ last'.op \in {"insert_events", "update_view"}) =>
        (IsConflict(last'.result) <=>
            (last'.fault = "none" /\ UniqueRejected(last')))
    ]_vars

\* C18: an event load, snapshot load or view load that reads a stored payload
\* it cannot decode returns the error kind DeserializationError.
C18_DecodeFailureIsDeserializationError ==
    [][(last' # last /\ last'.op \in {"get_events", "get_snapshot", "load"}
        /\ last'.fault = "none" /\ DecodeFails(last')) =>
        last'.result = "DeserializationError"
    ]_vars

\* C19: a call that meets a backend failure or reads a payload it cannot
\* decode returns one of the four error kinds; it does not panic and does not
\* return without an error.
C19_FailureIsReportedNotPanic ==
    [][(last' # last /\ (last'.fault # "none" \/ DecodeFails(last'))) =>
        last'.result \in ErrorKinds
    ]_vars

\* C31: for every input of insert_events, the stored log of each aggregate is
\* a contiguous run of sequences starting at 1: a batch that does not start
\* at the log head + 1, or whose sequences are not consecutive, is rejected
\* and stores nothing.
C31_NoGapForAnyInput ==
    \A id \in Ids :
        \A i \in 1..Len(get_events(events, id)) :
            get_events(events, id)[i].sequence = i

\* C32: a commit of an empty list of events on the snapshot-backed store
\* returns normally, on either build: it does not panic on the subtraction in
\* peek_at_last_sequence, and it leaves the event log as it was.
C32_EmptyCommitReturns ==
    [][\A w \in Writers :
         (wr[w].pc = "loaded" /\ wr[w].path = "snapshot"
          /\ wr'[w].pc # "loaded" /\ wr'[w].batch = <<>>) =>
            /\ wr'[w].result # "panic"
            /\ events' = events]_vars

\* C33: a persist call whose snapshot update carries version 0 completes, on
\* either build, with an error value (not Ok, not a panic) and leaves the
\* event log and the snapshots as they were.
C33_VersionZeroRejectedCleanly ==
    [][(last'.op = "persist_update" /\ last'.snapshot_update[3] = 0) =>
          /\ last'.result \notin {"Ok", "panic"}
          /\ events' = events
          /\ snapshots' = snapshots]_vars

\* C34: a PostgresSnapshotStore::commit that returns Ok has stored, as the
\* snapshot payload, the aggregate of its context with the committed events
\* applied in the order given, and, for a commit of at least one event, the
\* sequence of the last committed event as last_sequence.
C34_SnapshotIsContextPlusEvents ==
    [][\A w \in Writers :
         /\ (wr[w].pc = "loaded" /\ wr'[w].pc = "snapshot") =>
               wr'[w].ctx.aggregate = wr[w].ctx.aggregate \o wr'[w].batch
         /\ (wr[w].pc = "snapshot" /\ wr'[w].pc = "done"
              /\ wr'[w].result = "Ok") =>
               /\ SnapshotRows(snapshots', wr[w].id) # {}
               /\ \A r \in SnapshotRows(snapshots', wr[w].id) :
                     /\ r.payload = wr[w].ctx.aggregate
                     /\ wr[w].batch # <<>> =>
                           /\ r.last_sequence
                                 = wr[w].ctx.current_sequence + Len(wr[w].batch)
                           /\ \E e \in events' :
                                 /\ e.aggregate_id = wr[w].id
                                 /\ e.sequence = r.last_sequence
                                 /\ e.payload = Last(wr[w].batch)
                                 /\ e.metadata = w]_vars

\* a second commit on a stored snapshot: the update path stored both events
C34_Witness ==
    \E w \in Writers :
        /\ wr[w].pc = "done" /\ wr[w].path = "snapshot" /\ wr[w].result = "Ok"
        /\ wr[w].batch # <<>>
        /\ wr[w].ctx.current_snapshot >= 1
        /\ \E r \in SnapshotRows(snapshots, wr[w].id) :
              /\ r.payload = wr[w].ctx.aggregate
              /\ Len(r.payload) = 2
              /\ r.last_sequence = 2
              /\ r.current_snapshot = 2

\* what is stored for one aggregate: its events and its snapshot
StoredFor(ev, sn, id) ==
    [events |-> {e \in ev : e.aggregate_id = id}, snapshot |-> SnapshotRows(sn, id)]

\* C35: a persist call, accepted or rejected, changes what is stored for at
\* most one aggregate: whichever aggregate the call is for, the events and
\* the snapshot of every other aggregate are as before, also when the batch
\* and the snapshot update of the call name different aggregate ids.
C35_OtherAggregatesUntouched ==
    [][\A a, b \in Ids :
         (a # b /\ StoredFor(events', snapshots', a) # StoredFor(events, snapshots, a))
            => StoredFor(events', snapshots', b) = StoredFor(events, snapshots, b)
    ]_vars

\* C36: an update_view call on one view instance id, accepted or rejected,
\* leaves the row (payload and version) of every other view instance id as
\* it was, and leaves the event log and the snapshots as they were.
C36_OtherViewsUntouched ==
    [][last'.op = "update_view" /\ last' # last =>
         /\ \A v \in ViewIds \ {last'.view_id} :
               ViewRows(views', v) = ViewRows(views, v)
         /\ events' = events
         /\ snapshots' = snapshots]_vars

\* an accepted update of one view next to another view's row, with events
\* and a snapshot stored
C36_Witness ==
    /\ last.op = "update_view" /\ last.result = "Ok"
    /\ last.version >= 1
    /\ \E r \in ViewRows(views, last.view_id) :
          r.version = last.version + 1 /\ r.payload = last.payload
    /\ \E r \in views : /\ r.view_id # last.view_id
                         /\ r.payload # last.payload
                         /\ r.version # last.version + 1
    /\ events # {}
    /\ snapshots # {}

\* C37: a consumer that keeps calling next() on a stream returned by
\* stream_events or stream_all_events eventually receives the end of the
\* stream, whatever the log holds and whatever the channel size is; it is
\* never left waiting for a producer.
C37_StreamEnds == (rs.kind # "none") ~> rs.ended

\* a stream of channel size 1 over a log that holds events, drained to its end
C37_Witness ==
    /\ rs.kind # "none" /\ rs.ended
    /\ rs.channel_size = 1
    /\ rs.start # {}

C39_ConfigurationCommutes ==
    /\ last.op = "with_tables" =>
          last.value[2].stream_channel_size = last.value[1].stream_channel_size
    /\ last.op = "with_streaming_channel_size" =>
          /\ last.value[2].events_table = last.value[1].events_table
          /\ last.value[2].snapshots_table = last.value[1].snapshots_table

\* C40: a call of apply_events whose load succeeds ends normally having
\* written the view exactly once: the row of the view id becomes the loaded
\* view with all given events applied in order, at the loaded version plus
\* one, and no other row changes. A call whose load fails writes nothing and
\* has called the error handler once, so the failure was reported.
LoadFails(tbl, call) ==
    \/ call.value[1] # "none"
    \/ \E r \in ViewRows(tbl, call.view_id) : r.payload = Undecodable

C40_ApplyEventsWritesOnceOrReports ==
    [][(last'.op = "apply_events" /\ last' # last) =>
         IF LoadFails(views, last')
         THEN views' = views /\ last'.handled = 1
         ELSE LET l == load_mut(views, last'.view_id, "none")
              IN /\ last'.result = "Ok"
                 /\ views' = (views \ ViewRows(views, last'.view_id)) \cup
                              {[view_id |-> last'.view_id,
                                version |-> l.version + 1,
                                payload |-> updated(l.view, last'.events)]}]_vars

====
